---- MODULE Spec2Model ----
(***************************************************************************)
(* Server proxy of mcporter (server-proxy.ts): the schema cache with its   *)
(* single-flight listTools fetch, the tool-name mapper and the reconciling *)
(* of a dynamic call's arguments into the options handed to callTool.      *)
(***************************************************************************)
EXTENDS Integers, Sequences, FiniteSets, TLC

(***************************************************************************)
(* Bounds of the model.                                                    *)
(***************************************************************************)
\* dynamic calls of one proxy that may be in progress together (Spec)
MaxCalls == 2
\* listTools calls ensureMetadata may issue in one behaviour
MaxFetch == 2
\* call arguments of one dynamic call (SpecArgs)
MaxArgs == 3
MaxKeys == 2
MaxName == 3

(***************************************************************************)
(* JavaScript values.  A value is a tagged tuple; undefined is a value of  *)
(* its own.  An object is a function over AllKeys whose absent keys hold   *)
(* undefined, so that obj[key] === undefined is f[key] = Undef.            *)
(***************************************************************************)
AllKeys == {"", "a", "b", "t", "args", "1"}

\* A key that is no string: the number 1, as an entry of schema.required.
\* It is not the string "1", but obj[1] reads the property "1".
NumberOne == "#1"
IsString(key) == key # NumberOne
ToPropertyKey(key) == IF key = NumberOne THEN "1" ELSE key

Undef == <<"undef">>
Null == <<"null">>
Str(s) == <<"str", s>>
Arr(seq) == <<"arr", seq>>
Obj(f) == <<"map", f>>

EmptyObj == [k \in AllKeys |-> Undef]

\* Object.keys(obj), as a set
ObjKeys(f) == {k \in AllKeys : f[k] # Undef}

\* Object.assign(target, source) and the spread { ...target, ...source }
ObjAssign(target, source) ==
    [k \in AllKeys |-> IF source[k] # Undef THEN source[k] ELSE target[k]]

isPlainObject(value) == value[1] = "map"

\* isPlainObject(x) ? { ...x } : {}
SpreadOrEmpty(value) == IF isPlainObject(value) THEN value[2] ELSE EmptyObj

SeqToSet(seq) == {seq[i] : i \in 1..Len(seq)}

(***************************************************************************)
(* Tool names are sequences of characters.                                 *)
(***************************************************************************)
LowerLetters ==
    <<"a", "b", "c", "d", "e", "f", "g", "h", "i", "j", "k", "l", "m",
      "n", "o", "p", "q", "r", "s", "t", "u", "v", "w", "x", "y", "z">>
UpperLetters ==
    <<"A", "B", "C", "D", "E", "F", "G", "H", "I", "J", "K", "L", "M",
      "N", "O", "P", "Q", "R", "S", "T", "U", "V", "W", "X", "Y", "Z">>
Digits == {"0", "1", "2", "3", "4", "5", "6", "7", "8", "9"}

LowerOrDigit == SeqToSet(LowerLetters) \cup Digits
Upper == SeqToSet(UpperLetters)

toLowerCase(ch) ==
    IF ch \in Upper
    THEN LowerLetters[CHOOSE i \in 1..Len(UpperLetters) : UpperLetters[i] = ch]
    ELSE ch

\* (mutant) .replace("_", "-"), which replaces the first underscore only
RECURSIVE ReplaceFirstUnderscore(_)
ReplaceFirstUnderscore(name) ==
    IF name = <<>> THEN <<>>
    ELSE IF Head(name) = "_" THEN <<"-">> \o Tail(name)
    ELSE <<Head(name)>> \o ReplaceFirstUnderscore(Tail(name))

RECURSIVE ReplaceUnderscores(_)
ReplaceUnderscores(name) ==
    IF name = <<>> THEN <<>>
    ELSE <<IF Head(name) = "_" THEN "-" ELSE Head(name)>>
            \o ReplaceUnderscores(Tail(name))

RECURSIVE SplitCamel(_)
SplitCamel(name) ==
    IF Len(name) < 2 THEN name
    ELSE IF name[1] \in LowerOrDigit /\ name[2] \in Upper
         THEN <<name[1], "-">> \o SplitCamel(Tail(name))
         ELSE <<name[1]>> \o SplitCamel(Tail(name))

LowerAll(name) == [i \in 1..Len(name) |-> toLowerCase(name[i])]

defaultToolNameMapper(propertyKey) ==
    LowerAll(SplitCamel(ReplaceUnderscores(propertyKey)))

mapPropertyToTool(property) == defaultToolNameMapper(property)

(***************************************************************************)
(* Tool schemas.  A raw inputSchema is a record: usable is FALSE for a     *)
(* value createToolSchemaInfo rejects (null, a non-object); hasProps tells *)
(* whether schema.properties is an object; props lists the properties in   *)
(* declaration order, each with its default if it declares one; required   *)
(* is schema.required ([] when it is no array), whose entries are strings  *)
(* in a valid schema, but any value in what a server may send.             *)
(***************************************************************************)
Prop(key) == [key |-> key, hasDefault |-> FALSE, default |-> Undef]
PropDefault(key, d) == [key |-> key, hasDefault |-> TRUE, default |-> d]

NoSchema == [usable |-> FALSE, hasProps |-> FALSE, props |-> <<>>, required |-> <<>>]
RawSchema(props, required) ==
    [usable |-> TRUE, hasProps |-> TRUE, props |-> props, required |-> required]
RawSchemaNoProps(required) ==
    [usable |-> TRUE, hasProps |-> FALSE, props |-> <<>>, required |-> required]

\* ToolSchemaInfo | undefined
NoInfo ==
    [known |-> FALSE, schema |-> NoSchema, orderedKeys |-> <<>>,
     requiredKeys |-> <<>>, propertySet |-> {}]

\* (mutant) the loops of createToolSchemaInfo without the  seen  set
PushAll(orderedKeys, keys) == orderedKeys \o keys

\* the two loops of createToolSchemaInfo: push every key not seen yet
RECURSIVE PushUnseen(_, _)
PushUnseen(orderedKeys, keys) ==
    IF keys = <<>> THEN orderedKeys
    ELSE IF Head(keys) \in SeqToSet(orderedKeys)
         THEN PushUnseen(orderedKeys, Tail(keys))
         ELSE PushUnseen(Append(orderedKeys, Head(keys)), Tail(keys))

\* typeof key === "string", the further test of the loop over requiredKeys
StringKeys(keys) == SelectSeq(keys, IsString)

PropertyKeys(schema) ==
    IF schema.hasProps
    THEN [i \in 1..Len(schema.props) |-> schema.props[i].key]
    ELSE <<>>

createToolSchemaInfo(schemaRaw) ==
    IF ~schemaRaw.usable THEN NoInfo
    ELSE [known |-> TRUE,
          schema |-> schemaRaw,
          orderedKeys |->
              PushUnseen(PushUnseen(<<>>, StringKeys(schemaRaw.required)),
                         PropertyKeys(schemaRaw)),
          requiredKeys |-> schemaRaw.required,
          propertySet |->
              SeqToSet(PropertyKeys(schemaRaw)) \cup SeqToSet(schemaRaw.required)]

(***************************************************************************)
(* applyDefaults and validateRequired.                                     *)
(***************************************************************************)
RECURSIVE FillDefaults(_, _)
FillDefaults(result, props) ==
    IF props = <<>> THEN result
    ELSE LET p == Head(props) IN
         FillDefaults(
            IF p.hasDefault /\ result[p.key] = Undef
            THEN [result EXCEPT ![p.key] = p.default]
            ELSE result,
            Tail(props))

\* (mutant) defaults applied without the  result[key] === undefined  test
RECURSIVE FillDefaultsOverwriting(_, _)
FillDefaultsOverwriting(result, props) ==
    IF props = <<>> THEN result
    ELSE LET p == Head(props) IN
         FillDefaultsOverwriting(
            IF p.hasDefault THEN [result EXCEPT ![p.key] = p.default] ELSE result,
            Tail(props))

applyDefaultsOverwriting(meta, args) ==
    IF ~meta.schema.hasProps THEN args
    ELSE LET result == FillDefaultsOverwriting(SpreadOrEmpty(args), meta.schema.props) IN
         IF ObjKeys(result) = {} /\ ~isPlainObject(args) THEN args ELSE Obj(result)

applyDefaults(meta, args) ==
    IF ~meta.schema.hasProps THEN args
    ELSE LET result == FillDefaults(SpreadOrEmpty(args), meta.schema.props) IN
         IF ObjKeys(result) = {} /\ ~isPlainObject(args) THEN args ELSE Obj(result)

\* (mutant) only the first required key is looked at
validateRequiredFirstOnly(meta, args) ==
    IF meta.requiredKeys = <<>> THEN <<>>
    ELSE IF ~isPlainObject(args) THEN meta.requiredKeys
    ELSE IF args[2][ToPropertyKey(meta.requiredKeys[1])] = Undef
         THEN <<meta.requiredKeys[1]>>
    ELSE <<>>

\* the names the 'Missing required arguments' error lists, <<>> when
\* validateRequired returns without throwing
validateRequired(meta, args) ==
    IF meta.requiredKeys = <<>> THEN <<>>
    ELSE IF ~isPlainObject(args) THEN meta.requiredKeys
    ELSE SelectSeq(meta.requiredKeys,
                   LAMBDA key : args[2][ToPropertyKey(key)] = Undef)

(***************************************************************************)
(* The synchronous part of a dynamic call, from the classification loop to *)
(* the call of runtime.callTool (createServerProxy, the function returned  *)
(* by the get trap).                                                       *)
(***************************************************************************)
NoAccumulators ==
    [positional |-> <<>>, argsAccumulator |-> EmptyObj, optionsAccumulator |-> EmptyObj]

\* (mutant) keys.some in place of keys.every
treatAsArgsAnyKey(schemaInfo, arg) ==
    /\ schemaInfo.known
    /\ ObjKeys(arg[2]) # {}
    /\ \E key \in ObjKeys(arg[2]) : key \in schemaInfo.propertySet

treatAsArgs(schemaInfo, arg) ==
    /\ schemaInfo.known
    /\ ObjKeys(arg[2]) # {}
    /\ \A key \in ObjKeys(arg[2]) : key \in schemaInfo.propertySet

\* one iteration of  for (const arg of callArgs)
ClassifyArg(schemaInfo, acc, arg) ==
    IF isPlainObject(arg)
    THEN IF treatAsArgs(schemaInfo, arg)
         THEN [acc EXCEPT !.argsAccumulator = ObjAssign(@, arg[2])]
         ELSE [acc EXCEPT !.optionsAccumulator = ObjAssign(@, arg[2])]
    ELSE [acc EXCEPT !.positional = Append(@, arg)]

RECURSIVE ClassifyArgs(_, _, _)
ClassifyArgs(schemaInfo, acc, callArgs) ==
    IF callArgs = <<>> THEN acc
    ELSE ClassifyArgs(schemaInfo, ClassifyArg(schemaInfo, acc, Head(callArgs)),
                      Tail(callArgs))

\* positional.forEach((value, idx) => { const key = orderedKeys[idx];
\*                                      if (key) baseArgs[key] = value })
\* a key that is the empty string is falsy and its value is not stored
RECURSIVE BindFrom(_, _, _, _)
BindFrom(baseArgs, orderedKeys, positional, idx) ==
    IF idx > Len(positional) THEN baseArgs
    ELSE BindFrom(
            IF idx <= Len(orderedKeys) /\ orderedKeys[idx] # ""
            THEN [baseArgs EXCEPT ![orderedKeys[idx]] = positional[idx]]
            ELSE baseArgs,
            orderedKeys, positional, idx + 1)

BindPositional(schemaInfo, combinedArgs, positional) ==
    IF Len(positional) > 0
    THEN Obj(BindFrom(SpreadOrEmpty(combinedArgs), schemaInfo.orderedKeys, positional, 1))
    ELSE combinedArgs

MergeArgsAccumulator(combinedArgs, argsAccumulator) ==
    IF ObjKeys(argsAccumulator) # {}
    THEN Obj(ObjAssign(SpreadOrEmpty(combinedArgs), argsAccumulator))
    ELSE combinedArgs

\* (mutant) finalOptions.args = defaults ?? {}
ArgsWithDefaultsAlwaysSet(schemaInfo, combinedArgs) ==
    IF combinedArgs # Undef
    THEN applyDefaults(schemaInfo, combinedArgs)
    ELSE Obj(SpreadOrEmpty(applyDefaults(schemaInfo, Undef)))

\* lines 258-266: finalOptions.args with a known schema (Undef: not set)
ArgsWithDefaults(schemaInfo, combinedArgs) ==
    IF combinedArgs # Undef
    THEN applyDefaults(schemaInfo, combinedArgs)
    ELSE LET defaults == applyDefaults(schemaInfo, Undef) IN
         IF isPlainObject(defaults) /\ ObjKeys(defaults[2]) # {}
         THEN defaults
         ELSE Undef

\* (mutant) the positional values always sent as an array
FallbackArgsAlwaysArray(combinedArgs, positional) ==
    IF Len(positional) > 0 /\ combinedArgs = Undef
    THEN Arr(positional)
    ELSE combinedArgs

\* lines 270-276: the payload without a schema
FallbackArgs(combinedArgs, positional) ==
    IF Len(positional) > 0 /\ combinedArgs = Undef
    THEN IF Len(positional) = 1 THEN positional[1] ELSE Arr(positional)
    ELSE combinedArgs

\* Whose object the value of combinedArgs is: "caller" for an object the
\* caller passed in (optionsAccumulator.args is the caller's own args entry,
\* positional[0] the caller's own argument), "proxy" for an object the
\* handler made ({ ...combinedArgs }, {}, the positional array), "none"
\* for undefined.  Each operator follows the one that computes the value.
ExplicitArgsOwner(explicitArgs) ==
    IF explicitArgs # Undef THEN "caller" ELSE "none"

BindPositionalOwner(owner, positional) ==
    IF Len(positional) > 0 THEN "proxy" ELSE owner

MergeArgsAccumulatorOwner(owner, argsAccumulator) ==
    IF ObjKeys(argsAccumulator) # {} THEN "proxy" ELSE owner

\* applyDefaults returns args itself on its two early returns
applyDefaultsOwner(meta, args, owner) ==
    IF ~meta.schema.hasProps THEN owner
    ELSE LET result == FillDefaults(SpreadOrEmpty(args), meta.schema.props) IN
         IF ObjKeys(result) = {} /\ ~isPlainObject(args) THEN owner ELSE "proxy"

ArgsWithDefaultsOwner(schemaInfo, combinedArgs, owner) ==
    IF combinedArgs # Undef
    THEN applyDefaultsOwner(schemaInfo, combinedArgs, owner)
    ELSE IF ArgsWithDefaults(schemaInfo, combinedArgs) # Undef THEN "proxy" ELSE "none"

FallbackArgsOwner(combinedArgs, owner, positional) ==
    IF Len(positional) > 0 /\ combinedArgs = Undef
    THEN IF Len(positional) = 1 THEN "caller" ELSE "proxy"
    ELSE owner

TooManyPositional(schemaInfo, positional) ==
    Len(positional) > Len(schemaInfo.orderedKeys)

\* The locals of one run of the handler after  await ensureMetadata:
\* outcome is "callTool" when runtime.callTool is called with toolName and
\* finalOptions, "TooManyPositional" or "MissingRequired" when the handler
\* throws before it.
NoRun ==
    [outcome |-> "none", positional |-> <<>>, argsAccumulator |-> EmptyObj,
     optionsAccumulator |-> EmptyObj, explicitArgs |-> Undef, merged |-> Undef,
     missing |-> <<>>, finalOptions |-> EmptyObj,
     optionsOwner |-> "none", argsOwner |-> "none"]

\* combinedArgs after the positional values and the argument mappings are
\* merged in (lines 237-256 with a schema, 270-284 without)
MergedArgs(schemaInfo, acc) ==
    LET explicitArgs == acc.optionsAccumulator["args"] IN
    IF schemaInfo.known
    THEN MergeArgsAccumulator(
            BindPositional(schemaInfo, explicitArgs, acc.positional),
            acc.argsAccumulator)
    ELSE MergeArgsAccumulator(FallbackArgs(explicitArgs, acc.positional),
                              acc.argsAccumulator)

\* finalOptions.args (Undef: not set)
FinalArgs(schemaInfo, merged) ==
    IF schemaInfo.known THEN ArgsWithDefaults(schemaInfo, merged) ELSE merged

\* whose object finalOptions.args is
FinalArgsOwner(schemaInfo, acc, merged) ==
    LET explicitArgs == acc.optionsAccumulator["args"]
        explicitOwner == ExplicitArgsOwner(explicitArgs)
    IN IF schemaInfo.known
       THEN ArgsWithDefaultsOwner(schemaInfo, merged,
               MergeArgsAccumulatorOwner(
                   BindPositionalOwner(explicitOwner, acc.positional),
                   acc.argsAccumulator))
       ELSE MergeArgsAccumulatorOwner(
               FallbackArgsOwner(explicitArgs, explicitOwner, acc.positional),
               acc.argsAccumulator)

\* acc: the accumulators after the classification loop; merged, args: the
\* values of MergedArgs and FinalArgs for them
HandlerRun(schemaInfo, acc, merged, args) ==
    LET explicitArgs == acc.optionsAccumulator["args"]
        \* delete optionsAccumulator.args; finalOptions = { ...optionsAccumulator }
        options == [acc.optionsAccumulator EXCEPT !["args"] = Undef]
        locals == [NoRun EXCEPT !.positional = acc.positional,
                                !.argsAccumulator = acc.argsAccumulator,
                                !.optionsAccumulator = acc.optionsAccumulator,
                                !.explicitArgs = explicitArgs,
                                !.finalOptions = options,
                                !.optionsOwner = "proxy"]
    IN
    IF schemaInfo.known /\ TooManyPositional(schemaInfo, acc.positional)
    THEN [locals EXCEPT !.outcome = "TooManyPositional"]
    ELSE LET missing == IF schemaInfo.known THEN validateRequired(schemaInfo, args)
                        ELSE <<>>
         IN [locals EXCEPT !.merged = merged,
                           !.finalOptions = [options EXCEPT !["args"] = args],
                           !.argsOwner = FinalArgsOwner(schemaInfo, acc, merged),
                           !.missing = missing,
                           !.outcome = IF missing # <<>> THEN "MissingRequired"
                                       ELSE "callTool"]

(***************************************************************************)
(* The values, tools and names the model draws from.                       *)
(***************************************************************************)
OnlyKey(key, value) == [EmptyObj EXCEPT ![key] = value]

\* Call arguments are JSON values: no argument and no entry of a mapping is
\* undefined, and no key shadows a member of Object.prototype.
\* non-mapping call arguments: a scalar, null, an array
PositionalValues == {Str("x"), Null, Arr(<<Str("x"), Str("y")>>)}

\* plain mappings a caller passes
MappingValues ==
    { Obj(OnlyKey("a", Str("1"))),
      Obj([EmptyObj EXCEPT !["a"] = Str("2"), !["b"] = Str("2")]),
      Obj(EmptyObj),
      Obj(OnlyKey("t", Str("1"))),
      Obj([EmptyObj EXCEPT !["t"] = Str("2"),
                           !["args"] = Obj(OnlyKey("a", Str("3")))]),
      Obj(OnlyKey("args", Str("x"))) }

ArgValues == PositionalValues \cup MappingValues

SeqsUpTo(S, n) == UNION {[1..m -> S] : m \in 0..n}

\* the argument lists of a dynamic call in SpecArgs
ArgLists == SeqsUpTo(ArgValues, MaxArgs)


SchemaA == RawSchema(<<PropDefault("a", Str("d")), Prop("b")>>, <<"a">>)
SchemaB == RawSchemaNoProps(<<"b">>)
SchemaC == RawSchema(<<Prop("a"), Prop("b")>>, <<"b", "a">>)
SchemaD == RawSchema(<<PropDefault("t", Str("d")), Prop("a")>>, <<>>)
SchemaE == RawSchema(<<PropDefault("", Str("d")), Prop("a")>>, <<>>)
SchemaF == RawSchema(<<Prop("a")>>, <<>>)

Tool(name, inputSchema) == [name |-> name, inputSchema |-> inputSchema]

NameKebab == <<"s", "-", "t">>
NameSnake == <<"s", "_", "t">>
NameCamel == <<"s", "T">>
NameOther == <<"o">>

\* what runtime.listTools(serverName, {includeSchema: true}) resolves to
ToolLists ==
    { <<Tool(NameKebab, SchemaA), Tool(NameOther, SchemaB)>>,
      <<Tool(NameCamel, SchemaC), Tool(NameOther, SchemaD)>>,
      <<Tool(NameSnake, SchemaE), Tool(NameKebab, SchemaF)>>,
      <<Tool(NameKebab, SchemaF), Tool(NameSnake, SchemaE)>>,
      <<Tool(NameOther, NoSchema), Tool(NameKebab, SchemaA)>> }

\* the properties a caller reads off the proxy
Properties == {NameCamel, NameSnake, NameOther}

\* the calls <<property, callArgs>> of SpecArgs
ArgInputs == {NameCamel, NameOther} \X ArgLists

\* the calls <<property, callArgs>> of Spec, where calls run concurrently
ConcurrentInputs ==
    { <<NameCamel, <<>>>>,
      <<NameCamel, <<Str("x")>>>>,
      <<NameSnake, <<Obj(OnlyKey("a", Str("1")))>>>>,
      <<NameOther, <<Obj([EmptyObj EXCEPT !["t"] = Str("2"),
                                         !["args"] = Obj(OnlyKey("a", Str("3")))])>>>>,
      <<NameOther, <<Str("x"), Null>>>> }

\* the members of base, the target of the Proxy
NameCall == <<"c", "a", "l", "l">>
NameListTools == <<"l", "i", "s", "t", "T", "o", "o", "l", "s">>
BaseMembers == {NameCall, NameListTools}

\* (mutant) a get trap that finds no property on its target
ReflectHasNothing(property) == FALSE

\* Reflect.has(target, property)
ReflectHas(property) == property \in BaseMembers

CacheKeys ==
    {NameKebab, NameSnake, NameCamel, NameOther}
        \cup {mapPropertyToTool(p) : p \in Properties}

(***************************************************************************)
(* State.                                                                  *)
(***************************************************************************)
VARIABLES
    remoteTools,      \* the tools the server lists
    toolSchemaCache,  \* Map<string, ToolSchemaInfo>; NoInfo: no entry
    schemaFetch,      \* 0: null; n: the promise of the n-th fetch
    fetch,            \* the state of each fetch issued by ensureMetadata
    listToolsCalls,   \* runtime.listTools calls made by ensureMetadata
    failedFetches,    \* how many of them rejected
    call,             \* the dynamic calls
    craftFile,        \* ~/.craft/config.json (craft-config.ts)
    craftLast         \* the last operation on the connection store

proxyVars ==
    <<remoteTools, toolSchemaCache, schemaFetch, fetch, listToolsCalls,
      failedFetches, call>>

craftVars == <<craftFile, craftLast>>

vars == <<proxyVars, craftVars>>

Calls == 1..MaxCalls
Fetches == 1..MaxFetch

\* fetch[n]:
\*   "unissued"  listTools not called
\*   "inflight"  runtime.listTools pending
\*   "resolved"  runtime.listTools fulfilled, the .then callback not yet run
\*   "rejected"  runtime.listTools rejected, the .catch callback not yet run
\*   "fulfilled" the .then callback ran: the promise in schemaFetch is fulfilled
\*   "failed"    the .catch callback ran: the promise it returned is rejected
Settled(n) == fetch[n] \in {"fulfilled", "failed"}

\* call[c].pc:
\*   "idle"     not called yet
\*   "cached"   ensureMetadata returned the cache entry; the handler awaits it
\*   "ensure"   ensureMetadata awaits schemaFetch (call[c].awaited)
\*   "callTool" runtime.callTool was called and is pending
\*   "listTools" proxy.listTools called runtime.listTools, which is pending
\*   "returned" the call returned the wrapped result
\*   "threw"    the call rejected (call[c].error says with what)
IdleCall ==
    [pc |-> "idle", property |-> <<>>, toolName |-> <<>>, callArgs |-> <<>>,
     awaited |-> 0, schemaInfo |-> NoInfo, metaFailed |-> FALSE,
     run |-> NoRun, invoked |-> 0, error |-> "none"]

(***************************************************************************)
(* The connection store of craft-config.ts.  The file holds JSON: an       *)
(* object is a function over the keys it has, and JSON.stringify leaves    *)
(* out every key whose value is undefined.  The file system does not fail. *)
(***************************************************************************)
CraftNames == {"a", "b", "c"}

\* new URL(url), and what validateCraftUrl asks of its parts
UrlCraft == "https://mcp.craft.do/links/x/mcp"
UrlHttp == "http://mcp.craft.do/links/x/mcp"
UrlInvalidHost == "https://invalid.com/mcp"
UrlNoMcp == "https://mcp.craft.do/links/x"
UrlNone == "not a url"
CraftUrls == {UrlCraft, UrlHttp, UrlInvalidHost, UrlNoMcp, UrlNone}

ParseUrl(url) ==
    [parses |-> url # UrlNone,
     https |-> url \in {UrlCraft, UrlInvalidHost, UrlNoMcp},
     hostEndsWithCraftDo |-> url \in {UrlCraft, UrlHttp, UrlNoMcp},
     pathIncludesMcp |-> url \in {UrlCraft, UrlHttp, UrlInvalidHost}]

\* TRUE when validateCraftUrl returns, FALSE when it throws
validateCraftUrl(url) ==
    LET parsed == ParseUrl(url) IN
    /\ parsed.parses
    /\ parsed.hostEndsWithCraftDo
    /\ parsed.pathIncludesMcp
    /\ parsed.https

\* what discoverConnectionType may return
ConnectionTypes == {Str("doc"), Str("daily-notes"), Undef}
Descriptions == {Str("d"), Undef}

JsonKeys(obj) == {key \in DOMAIN obj : obj[key] # Undef}
JsonObject(obj) == [key \in JsonKeys(obj) |-> obj[key]]
JsonGet(obj, key) == IF key \in DOMAIN obj THEN obj[key] ELSE Undef

\* JSON.stringify(config)
Stringify(config) ==
    LET connections ==
            [i \in 1..Len(config.connections) |-> JsonObject(config.connections[i])]
    IN IF config.defaultConnection = Undef
       THEN [connections |-> connections]
       ELSE [connections |-> connections,
             defaultConnection |-> config.defaultConnection]

\* JSON.parse(content) as CraftConfig
Parse(content) ==
    [connections |-> content["connections"],
     defaultConnection |-> JsonGet(content, "defaultConnection")]

NoFile == [exists |-> FALSE, content |-> Stringify([connections |-> <<>>, defaultConnection |-> Undef])]

\* loadCraftConfig: { connections: [] } when the file does not exist
loadCraftConfig ==
    IF craftFile.exists THEN Parse(craftFile.content)
    ELSE [connections |-> <<>>, defaultConnection |-> Undef]

NameAt(connections, i) == connections[i]["name"]

\* config.connections.findIndex(c => c.name === name), 0 for -1
FindIndex(connections, name) ==
    LET found == {i \in 1..Len(connections) : NameAt(connections, i) = Str(name)}
    IN IF found = {} THEN 0 ELSE CHOOSE i \in found : \A j \in found : i <= j

\* config.connections.splice(index, 1)
Splice(connections, index) ==
    [i \in 1..(Len(connections) - 1) |->
        IF i < index THEN connections[i] ELSE connections[i + 1]]

NoOperation == [op |-> "none", name |-> "", threw |-> FALSE, before |-> NoFile]

CraftInit ==
    /\ craftFile = NoFile
    /\ craftLast = NoOperation

\* the operation throws before saveCraftConfig
Throws(op, name) ==
    /\ craftLast' = [op |-> op, name |-> name, threw |-> TRUE, before |-> craftFile]
    /\ craftFile' = craftFile

\* saveCraftConfig(config), and the operation returns
Saves(op, name, config) ==
    /\ craftLast' = [op |-> op, name |-> name, threw |-> FALSE, before |-> craftFile]
    /\ craftFile' = [exists |-> TRUE, content |-> Stringify(config)]

addConnection(name, url, description) ==
    /\ LET config == loadCraftConfig IN
       IF ~validateCraftUrl(url) THEN Throws("add", name)
       ELSE IF FindIndex(config.connections, name) # 0 THEN Throws("add", name)
       ELSE \E type \in ConnectionTypes :
              LET connection == [name |-> Str(name), url |-> Str(url),
                                 type |-> type, description |-> description]
                  connections == Append(config.connections, connection)
              IN Saves("add", name,
                       [connections |-> connections,
                        defaultConnection |->
                            IF Len(connections) = 1 THEN Str(name)
                            ELSE config.defaultConnection])
    /\ UNCHANGED proxyVars

\* (mutant) removeConnection without the update of the default
removeConnectionKeepsDefault(name) ==
    /\ LET config == loadCraftConfig
           index == FindIndex(config.connections, name)
       IN IF index = 0 THEN Throws("remove", name)
          ELSE Saves("remove", name,
                     [connections |-> Splice(config.connections, index),
                      defaultConnection |-> config.defaultConnection])
    /\ UNCHANGED proxyVars

removeConnection(name) ==
    /\ LET config == loadCraftConfig
           index == FindIndex(config.connections, name)
       IN IF index = 0 THEN Throws("remove", name)
          ELSE LET connections == Splice(config.connections, index) IN
               Saves("remove", name,
                     [connections |-> connections,
                      defaultConnection |->
                          IF config.defaultConnection = Str(name)
                          THEN IF Len(connections) > 0 THEN NameAt(connections, 1)
                               ELSE Undef
                          ELSE config.defaultConnection])
    /\ UNCHANGED proxyVars

useConnection(name) ==
    /\ LET config == loadCraftConfig IN
       IF FindIndex(config.connections, name) = 0 THEN Throws("use", name)
       ELSE Saves("use", name,
                  [connections |-> config.connections,
                   defaultConnection |-> Str(name)])
    /\ UNCHANGED proxyVars

Init ==
    /\ remoteTools \in ToolLists
    /\ toolSchemaCache = [name \in CacheKeys |-> NoInfo]
    /\ schemaFetch = 0
    /\ fetch = [n \in Fetches |-> "unissued"]
    /\ listToolsCalls = 0
    /\ failedFetches = 0
    /\ call = [c \in Calls |-> IdleCall]
    /\ CraftInit

(***************************************************************************)
(* ensureMetadata.                                                         *)
(***************************************************************************)
\* toolSchemaCache.get(name): no name outside CacheKeys ever has an entry
CacheGet(name) == IF name \in CacheKeys THEN toolSchemaCache[name] ELSE NoInfo

\* the .then callback: toolSchemaCache.set for every tool with an info
RECURSIVE CacheTools(_, _)
CacheTools(cache, tools) ==
    IF tools = <<>> THEN cache
    ELSE LET tool == Head(tools)
             info == createToolSchemaInfo(tool.inputSchema)
         IN IF ~info.known
            THEN CacheTools(cache, Tail(tools))
            ELSE CacheTools(
                    [cache EXCEPT ![tool.name] = info,
                                  ![mapPropertyToTool(tool.name)] = info],
                    Tail(tools))

\* calls are numbered in the order they are made
NextCall(c) == call[c].pc = "idle" /\ \A d \in Calls : d < c => call[d].pc # "idle"

\* proxy[property](...callArgs) up to the first await, for a call
\* <<property, callArgs>> of inputs: the cache has the tool, so
\* ensureMetadata returns its entry
StartCached(c, inputs) ==
    /\ NextCall(c)
    /\ \E in \in inputs :
        LET toolName == mapPropertyToTool(in[1]) IN
        /\ ~ReflectHas(in[1])
        /\ CacheGet(toolName).known
        /\ call' = [call EXCEPT ![c] =
                      [IdleCall EXCEPT !.pc = "cached", !.property = in[1],
                                       !.toolName = toolName, !.callArgs = in[2],
                                       !.schemaInfo = CacheGet(toolName)]]
    /\ UNCHANGED <<remoteTools, toolSchemaCache, schemaFetch, fetch,
                   listToolsCalls, failedFetches>>
    /\ UNCHANGED craftVars

\* the same with no entry and schemaFetch null: ensureMetadata calls
\* runtime.listTools, stores the chained promise and awaits it
StartFetch(c, inputs) ==
    LET n == listToolsCalls + 1 IN
    /\ NextCall(c)
    /\ schemaFetch = 0
    /\ n <= MaxFetch
    /\ \E in \in inputs :
        LET toolName == mapPropertyToTool(in[1]) IN
        /\ ~ReflectHas(in[1])
        /\ ~CacheGet(toolName).known
        /\ call' = [call EXCEPT ![c] =
                      [IdleCall EXCEPT !.pc = "ensure", !.property = in[1],
                                       !.toolName = toolName, !.callArgs = in[2],
                                       !.awaited = n]]
    /\ listToolsCalls' = n
    /\ fetch' = [fetch EXCEPT ![n] = "inflight"]
    /\ schemaFetch' = n
    /\ UNCHANGED <<remoteTools, toolSchemaCache, failedFetches>>
    /\ UNCHANGED craftVars

\* (mutant) ensureMetadata without the  if (!schemaFetch)  test
StartJoinRefetch(c, inputs) ==
    LET n == listToolsCalls + 1 IN
    /\ NextCall(c)
    /\ schemaFetch # 0
    /\ n <= MaxFetch
    /\ \E in \in inputs :
        LET toolName == mapPropertyToTool(in[1]) IN
        /\ ~ReflectHas(in[1])
        /\ ~CacheGet(toolName).known
        /\ call' = [call EXCEPT ![c] =
                      [IdleCall EXCEPT !.pc = "ensure", !.property = in[1],
                                       !.toolName = toolName, !.callArgs = in[2],
                                       !.awaited = n]]
    /\ listToolsCalls' = n
    /\ fetch' = [fetch EXCEPT ![n] = "inflight"]
    /\ schemaFetch' = n
    /\ UNCHANGED <<remoteTools, toolSchemaCache, failedFetches>>
    /\ UNCHANGED craftVars

\* the same with no entry and schemaFetch set: ensureMetadata awaits it
StartJoin(c, inputs) ==
    /\ NextCall(c)
    /\ schemaFetch # 0
    /\ \E in \in inputs :
        LET toolName == mapPropertyToTool(in[1]) IN
        /\ ~ReflectHas(in[1])
        /\ ~CacheGet(toolName).known
        /\ call' = [call EXCEPT ![c] =
                      [IdleCall EXCEPT !.pc = "ensure", !.property = in[1],
                                       !.toolName = toolName, !.callArgs = in[2],
                                       !.awaited = schemaFetch]]
    /\ UNCHANGED <<remoteTools, toolSchemaCache, schemaFetch, fetch,
                   listToolsCalls, failedFetches>>
    /\ UNCHANGED craftVars

\* runtime.listTools settles
ListToolsResolves(n) ==
    /\ fetch[n] = "inflight"
    /\ fetch' = [fetch EXCEPT ![n] = "resolved"]
    /\ UNCHANGED <<remoteTools, toolSchemaCache, schemaFetch, listToolsCalls,
                   failedFetches, call>>
    /\ UNCHANGED craftVars

ListToolsRejects(n) ==
    /\ fetch[n] = "inflight"
    /\ fetch' = [fetch EXCEPT ![n] = "rejected"]
    /\ failedFetches' = failedFetches + 1
    /\ UNCHANGED <<remoteTools, toolSchemaCache, schemaFetch, listToolsCalls, call>>
    /\ UNCHANGED craftVars

\* (mutant) a .then callback that ends with  schemaFetch = null
ThenCallbackClearsMarker(n) ==
    /\ fetch[n] = "resolved"
    /\ toolSchemaCache' = CacheTools(toolSchemaCache, remoteTools)
    /\ fetch' = [fetch EXCEPT ![n] = "fulfilled"]
    /\ schemaFetch' = 0
    /\ UNCHANGED <<remoteTools, listToolsCalls, failedFetches, call>>
    /\ UNCHANGED craftVars

\* .then((tools) => { ... })
ThenCallback(n) ==
    /\ fetch[n] = "resolved"
    /\ toolSchemaCache' = CacheTools(toolSchemaCache, remoteTools)
    /\ fetch' = [fetch EXCEPT ![n] = "fulfilled"]
    /\ UNCHANGED <<remoteTools, schemaFetch, listToolsCalls, failedFetches, call>>
    /\ UNCHANGED craftVars

\* (mutant) a .catch callback that rethrows without  schemaFetch = null
CatchCallbackKeepsMarker(n) ==
    /\ fetch[n] = "rejected"
    /\ fetch' = [fetch EXCEPT ![n] = "failed"]
    /\ UNCHANGED <<remoteTools, toolSchemaCache, schemaFetch, listToolsCalls,
                   failedFetches, call>>
    /\ UNCHANGED craftVars

\* .catch((error) => { schemaFetch = null; throw error })
CatchCallback(n) ==
    /\ fetch[n] = "rejected"
    /\ schemaFetch' = 0
    /\ fetch' = [fetch EXCEPT ![n] = "failed"]
    /\ UNCHANGED <<remoteTools, toolSchemaCache, listToolsCalls, failedFetches, call>>
    /\ UNCHANGED craftVars

(***************************************************************************)
(* The handler after  await ensureMetadata(toolName).                      *)
(***************************************************************************)
\* (mutant) a validation error that rejects every call waiting for a schema
HandleSharedError(c, schemaInfo, metaFailed) ==
    \E acc \in {ClassifyArgs(schemaInfo, NoAccumulators, call[c].callArgs)} :
    \E merged \in {MergedArgs(schemaInfo, acc)} :
    \E args \in {FinalArgs(schemaInfo, merged)} :
    \E run \in {HandlerRun(schemaInfo, acc, merged, args)} :
    call' = [d \in Calls |->
               IF d = c
               THEN [call[c] EXCEPT
                        !.schemaInfo = schemaInfo, !.metaFailed = metaFailed,
                        !.run = run,
                        !.pc = IF run.outcome = "callTool" THEN "callTool" ELSE "threw",
                        !.invoked = IF run.outcome = "callTool" THEN 1 ELSE 0,
                        !.error = IF run.outcome = "callTool" THEN "none"
                                  ELSE run.outcome]
               ELSE IF run.outcome # "callTool" /\ call[d].pc \in {"ensure", "cached"}
                    THEN [call[d] EXCEPT !.pc = "threw", !.error = run.outcome]
                    ELSE call[d]]

\* acc, merged, args and run are computed once, in the order of the code
Handle(c, schemaInfo, metaFailed) ==
    \E acc \in {ClassifyArgs(schemaInfo, NoAccumulators, call[c].callArgs)} :
    \E merged \in {MergedArgs(schemaInfo, acc)} :
    \E args \in {FinalArgs(schemaInfo, merged)} :
    \E run \in {HandlerRun(schemaInfo, acc, merged, args)} :
    call' = [call EXCEPT ![c].schemaInfo = schemaInfo,
                         ![c].metaFailed = metaFailed,
                         ![c].run = run,
                         ![c].pc = IF run.outcome = "callTool" THEN "callTool" ELSE "threw",
                         ![c].invoked = IF run.outcome = "callTool" THEN 1 ELSE 0,
                         ![c].error = IF run.outcome = "callTool" THEN "none"
                                      ELSE run.outcome]

ResumeCached(c) ==
    /\ call[c].pc = "cached"
    /\ Handle(c, call[c].schemaInfo, FALSE)
    /\ UNCHANGED <<remoteTools, toolSchemaCache, schemaFetch, fetch,
                   listToolsCalls, failedFetches>>
    /\ UNCHANGED craftVars

\* (mutant) ensureMetadata without the  await  before  schemaFetch
ResumeFetchedNoAwait(c) ==
    /\ call[c].pc = "ensure"
    /\ fetch[call[c].awaited] \in {"inflight", "resolved", "fulfilled"}
    /\ Handle(c, CacheGet(call[c].toolName), FALSE)
    /\ UNCHANGED <<remoteTools, toolSchemaCache, schemaFetch, fetch,
                   listToolsCalls, failedFetches>>
    /\ UNCHANGED craftVars

\* await schemaFetch fulfilled: return toolSchemaCache.get(toolName)
ResumeFetched(c) ==
    /\ call[c].pc = "ensure"
    /\ fetch[call[c].awaited] = "fulfilled"
    /\ Handle(c, CacheGet(call[c].toolName), FALSE)
    /\ UNCHANGED <<remoteTools, toolSchemaCache, schemaFetch, fetch,
                   listToolsCalls, failedFetches>>
    /\ UNCHANGED craftVars

\* (mutant) the handler without the try/catch around ensureMetadata
ResumeFailedThrows(c) ==
    /\ call[c].pc = "ensure"
    /\ fetch[call[c].awaited] = "failed"
    /\ call' = [call EXCEPT ![c].metaFailed = TRUE, ![c].pc = "threw",
                            ![c].error = "listTools"]
    /\ UNCHANGED <<remoteTools, toolSchemaCache, schemaFetch, fetch,
                   listToolsCalls, failedFetches>>
    /\ UNCHANGED craftVars

\* await schemaFetch rejected: ensureMetadata throws, the handler catches
ResumeFailed(c) ==
    /\ call[c].pc = "ensure"
    /\ fetch[call[c].awaited] = "failed"
    /\ Handle(c, NoInfo, TRUE)
    /\ UNCHANGED <<remoteTools, toolSchemaCache, schemaFetch, fetch,
                   listToolsCalls, failedFetches>>
    /\ UNCHANGED craftVars

\* runtime.callTool settles
CallToolResolves(c) ==
    /\ call[c].pc = "callTool"
    /\ call' = [call EXCEPT ![c].pc = "returned"]
    /\ UNCHANGED <<remoteTools, toolSchemaCache, schemaFetch, fetch,
                   listToolsCalls, failedFetches>>
    /\ UNCHANGED craftVars

CallToolRejects(c) ==
    /\ call[c].pc = "callTool"
    /\ call' = [call EXCEPT ![c].pc = "threw", ![c].error = "callTool"]
    /\ UNCHANGED <<remoteTools, toolSchemaCache, schemaFetch, fetch,
                   listToolsCalls, failedFetches>>
    /\ UNCHANGED craftVars

Settle ==
    \/ \E n \in Fetches : ListToolsResolves(n)
    \/ \E n \in Fetches : ListToolsRejects(n)
    \/ \E n \in Fetches : ThenCallback(n)
    \/ \E n \in Fetches : CatchCallback(n)
    \/ \E c \in Calls : ResumeCached(c)
    \/ \E c \in Calls : ResumeFetched(c)
    \/ \E c \in Calls : ResumeFailed(c)
    \/ \E c \in Calls : CallToolResolves(c)
    \/ \E c \in Calls : CallToolRejects(c)

\* up to MaxCalls calls in progress together, each with a short argument list
Next ==
    \/ \E c \in Calls : StartCached(c, ConcurrentInputs)
    \/ \E c \in Calls : StartFetch(c, ConcurrentInputs)
    \/ \E c \in Calls : StartJoin(c, ConcurrentInputs)
    \/ Settle

Spec == Init /\ [][Next]_vars

\* Every promise the runtime returns settles, and the event loop runs the
\* callbacks and continuations that are ready: as long as one of them can
\* take a step, one does.  Nothing makes a caller call.
Fairness == WF_vars(Settle)

\* the calls <<property, callArgs>> of SpecFair
FairInputs ==
    { <<NameCamel, <<>>>>,
      <<NameOther, <<Str("x"), Null>>>> }

NextFair ==
    \/ \E c \in Calls : StartCached(c, FairInputs)
    \/ \E c \in Calls : StartFetch(c, FairInputs)
    \/ \E c \in Calls : StartJoin(c, FairInputs)
    \/ Settle

SpecFair == Init /\ [][NextFair]_vars /\ Fairness

\* one call, with every argument list of ArgLists
NextArgs ==
    \/ StartFetch(1, ArgInputs)
    \/ \E n \in Fetches : ListToolsResolves(n)
    \/ \E n \in Fetches : ListToolsRejects(n)
    \/ \E n \in Fetches : ThenCallback(n)
    \/ \E n \in Fetches : CatchCallback(n)
    \/ ResumeFetched(1)
    \/ ResumeFailed(1)
    \/ CallToolResolves(1)
    \/ CallToolRejects(1)

SpecArgs == Init /\ [][NextArgs]_vars

(***************************************************************************)
(* createToolSchemaInfo over the schemas a server may list.                *)
(***************************************************************************)
\* Object.keys(schema.properties): up to MaxKeys names, no name twice
DeclaredKeys ==
    {keys \in SeqsUpTo({"a", "b", "t"}, MaxKeys) :
        \A i, j \in 1..Len(keys) : i # j => keys[i] # keys[j]}

\* schema.required: up to MaxKeys entries, a name may repeat, an entry may
\* name no property or be no string
RequiredLists == SeqsUpTo({"a", "b", "t", NumberOne}, MaxKeys)

Schemas ==
    {NoSchema}
        \cup {RawSchemaNoProps(required) : required \in RequiredLists}
        \cup {RawSchema([i \in 1..Len(keys) |-> Prop(keys[i])], required) :
                 keys \in DeclaredKeys, required \in RequiredLists}

InitSchemas ==
    /\ remoteTools \in {<<Tool(NameKebab, schema)>> : schema \in Schemas}
    /\ toolSchemaCache = [name \in CacheKeys |-> NoInfo]
    /\ schemaFetch = 0
    /\ fetch = [n \in Fetches |-> "unissued"]
    /\ listToolsCalls = 0
    /\ failedFetches = 0
    /\ call = [c \in Calls |-> IdleCall]
    /\ CraftInit

SchemaInputs == {<<NameCamel, <<>>>>, <<NameCamel, <<Str("x")>>>>}

\* one call, which makes ensureMetadata derive the info of every schema
NextSchemas ==
    \/ StartFetch(1, SchemaInputs)
    \/ \E n \in Fetches : ListToolsResolves(n)
    \/ \E n \in Fetches : ListToolsRejects(n)
    \/ \E n \in Fetches : ThenCallback(n)
    \/ \E n \in Fetches : CatchCallback(n)
    \/ ResumeFetched(1)
    \/ ResumeFailed(1)
    \/ CallToolResolves(1)
    \/ CallToolRejects(1)

SpecSchemas == InitSchemas /\ [][NextSchemas]_vars

(***************************************************************************)
(* The name mapper over the properties a caller may read.                  *)
(***************************************************************************)
NameResolveLibraryId ==
    <<"r", "e", "s", "o", "l", "v", "e", "L", "i", "b", "r", "a", "r", "y", "I", "d">>
NameFirecrawlScrape ==
    <<"f", "i", "r", "e", "c", "r", "a", "w", "l", "_", "s", "c", "r", "a", "p", "e">>

\* every property of up to MaxName characters, and the two of the tests
PropertyNames ==
    (SeqsUpTo({"s", "T", "1", "_", "-"}, MaxName) \ {<<>>})
        \cup {NameResolveLibraryId, NameFirecrawlScrape}

NameInputs == PropertyNames \X {<<>>, <<Str("x")>>}

\* one call of any property
NextNames ==
    \/ StartFetch(1, NameInputs)
    \/ \E n \in Fetches : ListToolsResolves(n)
    \/ \E n \in Fetches : ListToolsRejects(n)
    \/ \E n \in Fetches : ThenCallback(n)
    \/ \E n \in Fetches : CatchCallback(n)
    \/ ResumeFetched(1)
    \/ ResumeFailed(1)
    \/ CallToolResolves(1)
    \/ CallToolRejects(1)

SpecNames == Init /\ [][NextNames]_vars

(***************************************************************************)
(* The connection store: craft add, craft remove and craft use, one after  *)
(* the other.                                                              *)
(***************************************************************************)
InitCraft ==
    /\ remoteTools = <<>>
    /\ toolSchemaCache = [name \in CacheKeys |-> NoInfo]
    /\ schemaFetch = 0
    /\ fetch = [n \in Fetches |-> "unissued"]
    /\ listToolsCalls = 0
    /\ failedFetches = 0
    /\ call = [c \in Calls |-> IdleCall]
    /\ CraftInit

NextCraft ==
    \/ \E name \in CraftNames, url \in CraftUrls, description \in Descriptions :
          addConnection(name, url, description)
    \/ \E name \in CraftNames : removeConnection(name)
    \/ \E name \in CraftNames : useConnection(name)

SpecCraft == InitCraft /\ [][NextCraft]_vars

(***************************************************************************)
(* The members of base: the get trap returns them as they are.             *)
(***************************************************************************)
\* proxy.call(toolName, options): runtime.callTool(serverName, toolName,
\* options ?? {}); callArgs is <<toolName>> or <<toolName, options>>
BaseCall(c, inputs) ==
    /\ NextCall(c)
    /\ \E in \in inputs :
        /\ ReflectHas(in[1])
        /\ in[1] = NameCall
        /\ call' = [call EXCEPT ![c] =
                      [IdleCall EXCEPT
                          !.pc = "callTool", !.property = in[1],
                          !.toolName = in[2][1][2], !.callArgs = in[2],
                          !.invoked = 1,
                          !.run = [NoRun EXCEPT
                                     !.outcome = "callTool",
                                     !.finalOptions =
                                         IF Len(in[2]) >= 2 THEN in[2][2][2]
                                         ELSE EmptyObj,
                                     !.optionsOwner =
                                         IF Len(in[2]) >= 2 THEN "caller"
                                         ELSE "proxy"]]]
    /\ UNCHANGED <<remoteTools, toolSchemaCache, schemaFetch, fetch,
                   listToolsCalls, failedFetches>>
    /\ UNCHANGED craftVars

\* proxy.listTools(options): runtime.listTools(serverName, options)
BaseListTools(c, inputs) ==
    /\ NextCall(c)
    /\ \E in \in inputs :
        /\ ReflectHas(in[1])
        /\ in[1] = NameListTools
        /\ call' = [call EXCEPT ![c] =
                      [IdleCall EXCEPT !.pc = "listTools", !.property = in[1],
                                       !.callArgs = in[2]]]
    /\ UNCHANGED <<remoteTools, toolSchemaCache, schemaFetch, fetch,
                   listToolsCalls, failedFetches>>
    /\ UNCHANGED craftVars

\* that runtime.listTools settles: proxy.listTools returned its promise
BaseListToolsResolves(c) ==
    /\ call[c].pc = "listTools"
    /\ call' = [call EXCEPT ![c].pc = "returned"]
    /\ UNCHANGED <<remoteTools, toolSchemaCache, schemaFetch, fetch,
                   listToolsCalls, failedFetches>>
    /\ UNCHANGED craftVars

BaseListToolsRejects(c) ==
    /\ call[c].pc = "listTools"
    /\ call' = [call EXCEPT ![c].pc = "threw", ![c].error = "listTools"]
    /\ UNCHANGED <<remoteTools, toolSchemaCache, schemaFetch, fetch,
                   listToolsCalls, failedFetches>>
    /\ UNCHANGED craftVars

\* the calls <<property, callArgs>> of SpecBase: base members and tools
BaseInputs ==
    { <<NameCall, <<Str(NameCamel)>>>>,
      <<NameCall, <<Str(NameSnake), Obj(OnlyKey("a", Str("1")))>>>>,
      <<NameCall, <<Str(NameOther),
                    Obj([EmptyObj EXCEPT !["t"] = Str("2"),
                                         !["args"] = Obj(OnlyKey("a", Str("3")))])>>>>,
      <<NameListTools, <<>>>>,
      <<NameListTools, <<Obj(OnlyKey("t", Str("1")))>>>>,
      <<NameCamel, <<Str("x")>>>>,
      <<NameOther, <<>>>> }

\* calls of base members among calls of tools
NextBase ==
    \/ \E c \in Calls : BaseCall(c, BaseInputs)
    \/ \E c \in Calls : BaseListTools(c, BaseInputs)
    \/ \E c \in Calls : BaseListToolsResolves(c)
    \/ \E c \in Calls : BaseListToolsRejects(c)
    \/ \E c \in Calls : StartCached(c, BaseInputs)
    \/ \E c \in Calls : StartFetch(c, BaseInputs)
    \/ \E c \in Calls : StartJoin(c, BaseInputs)
    \/ Settle

SpecBase == Init /\ [][NextBase]_vars

(***************************************************************************)
(* Properties.                                                             *)
(***************************************************************************)
Unsettled == {n \in Fetches : fetch[n] \in {"inflight", "resolved", "rejected"}}

Resumed(c) == call[c].pc \in {"callTool", "returned", "threw"}

\* C1: single-flight.  At most one listTools call of ensureMetadata is
\* outstanding at any moment; every call that waits for a schema while a
\* fetch is outstanding waits on that one fetch, the one schemaFetch holds;
\* and as long as no fetch has failed, any number of calls made so far have
\* caused exactly one listTools call.
C1_SingleFlight ==
    /\ Cardinality(Unsettled) <= 1
    /\ \A c \in Calls :
          (call[c].pc = "ensure" /\ ~Settled(call[c].awaited))
             => (call[c].awaited = schemaFetch /\ Unsettled = {schemaFetch})
    /\ failedFetches = 0
          => listToolsCalls = (IF \E c \in Calls : call[c].pc # "idle" THEN 1 ELSE 0)

\* two calls, to different tools, wait on the one fetch in flight
C1_Witness ==
    \E c, d \in Calls :
        /\ c # d
        /\ call[c].pc = "ensure" /\ call[d].pc = "ensure"
        /\ call[c].toolName # call[d].toolName
        /\ call[c].awaited = call[d].awaited
        /\ fetch[call[c].awaited] = "inflight"
        /\ listToolsCalls = 1

\* C2: a failed fetch reaches every waiter and clears the marker first.
\* In every step: a fetch whose chained promise is rejected is no longer
\* the one schemaFetch holds (so no waiter resumes before the marker is
\* cleared, and the registry is never left at a failed fetch); a waiter
\* resumes from a failed fetch only with the failure (no schema); a
\* rejection whose .catch callback has not run yet can run it; and a call
\* that starts to need a schema when the last fetch has failed issues a new
\* listTools call.
C2_FailureClearsMarker ==
    [][ /\ \A n \in Fetches : fetch'[n] = "failed" => schemaFetch' # n
        /\ \A n \in Fetches : fetch'[n] = "rejected" => (ENABLED CatchCallback(n))'
        /\ \A c \in Calls :
              (call[c].pc = "ensure" /\ Resumed(c)' /\ fetch[call[c].awaited] = "failed")
                 => (call'[c].metaFailed /\ ~call'[c].schemaInfo.known
                     /\ schemaFetch # call[c].awaited)
        /\ \A c \in Calls :
              (/\ call[c].pc = "idle" /\ call'[c].pc = "ensure"
               /\ listToolsCalls > 0 /\ fetch[listToolsCalls] = "failed")
                 => (/\ listToolsCalls' = listToolsCalls + 1
                     /\ call'[c].awaited = listToolsCalls'
                     /\ fetch'[listToolsCalls'] = "inflight")
      ]_vars

\* one call has resumed from the failed first fetch while the other waits
\* on the second fetch, started after the failure
C2_Witness ==
    \E c, d \in Calls :
        /\ fetch[1] = "failed"
        /\ call[c].awaited = 1 /\ Resumed(c) /\ call[c].metaFailed
        /\ call[d].pc = "ensure" /\ call[d].awaited = 2

\* C3: a call that waited on a fetch that failed has called callTool exactly
\* once, with the mapped name of the property, and has not thrown a
\* validation error; a single mapping argument is the options verbatim; no
\* payload is made up: args is either absent, the positional values, or the
\* caller's own args entry.
C3_FailedFetchStillCalls ==
    \A c \in Calls :
        (Resumed(c) /\ call[c].metaFailed) =>
            /\ call[c].invoked = 1
            /\ call[c].error \in {"none", "callTool"}
            /\ call[c].toolName = defaultToolNameMapper(call[c].property)
            /\ (Len(call[c].callArgs) = 1 /\ isPlainObject(call[c].callArgs[1]))
                  => call[c].run.finalOptions = call[c].callArgs[1][2]
            /\ isPlainObject(call[c].run.finalOptions["args"])
                  => \E i \in 1..Len(call[c].callArgs) :
                        /\ isPlainObject(call[c].callArgs[i])
                        /\ call[c].callArgs[i][2]["args"] = call[c].run.finalOptions["args"]

\* both calls waited on the same failed fetch and both called callTool, one
\* of them with a single mapping that carries an args entry
C3_Witness ==
    \E c, d \in Calls :
        /\ c # d
        /\ call[c].awaited = call[d].awaited
        /\ call[c].metaFailed /\ call[d].metaFailed
        /\ call[c].invoked = 1 /\ call[d].invoked = 1
        /\ Len(call[c].callArgs) = 1
        /\ isPlainObject(call[c].callArgs[1])
        /\ call[c].run.finalOptions["args"] # Undef

(***************************************************************************)
(* Properties of the reconciling of the arguments (SpecArgs).              *)
(***************************************************************************)
\* value has a value under key
Has(value, key) == isPlainObject(value) /\ value[2][key] # Undef

\* the value under key, undefined when value is no mapping
At(value, key) == IF isPlainObject(value) THEN value[2][key] ELSE Undef

\* the payload the handler put in finalOptions.args
Payload(c) == call[c].run.finalOptions["args"]

\* the call has resumed with a schema and was not refused for its
\* positional arguments: the merge has run
Merged(c) ==
    /\ Resumed(c)
    /\ call[c].schemaInfo.known
    /\ call[c].run.outcome # "TooManyPositional"

NonMappings(callArgs) == SelectSeq(callArgs, LAMBDA arg : ~isPlainObject(arg))

DefaultOf(schemaInfo, key) ==
    LET props == schemaInfo.schema.props
        with == {i \in 1..Len(props) : props[i].key = key /\ props[i].hasDefault}
    IN IF with = {} THEN Undef ELSE props[CHOOSE i \in with : TRUE].default

\* C4: with a known schema, the required keys the merged payload has no
\* value for are exactly the names the 'Missing required arguments' error
\* lists, callTool is not called when there is one, and the error is not
\* raised when there is none.
C4_MissingRequired ==
    \A c \in Calls :
        Merged(c) =>
            LET missing == {key \in SeqToSet(call[c].schemaInfo.requiredKeys) :
                               ~Has(Payload(c), key)}
            IN /\ missing # {} =>
                    /\ call[c].invoked = 0
                    /\ call[c].error = "MissingRequired"
                    /\ SeqToSet(call[c].run.missing) = missing
               /\ missing = {} =>
                    /\ call[c].invoked = 1
                    /\ call[c].error # "MissingRequired"

\* a call refused for one of two required keys, the other being supplied
C4_Witness ==
    \E c \in Calls :
        /\ Merged(c)
        /\ call[c].error = "MissingRequired"
        /\ call[c].invoked = 0
        /\ Len(call[c].run.missing) = 1
        /\ \E key \in SeqToSet(call[c].schemaInfo.requiredKeys) : Has(Payload(c), key)

\* C5: with a known schema, more positional values than ordered keys is the
\* 'Too many positional arguments' error with no callTool; otherwise the
\* i-th positional value is in the merged payload under orderedKeys[i]
\* (unless an argument bag gave that key a value).
C5_PositionalBound ==
    \A c \in Calls :
        (Resumed(c) /\ call[c].schemaInfo.known) =>
            LET positional == NonMappings(call[c].callArgs)
                orderedKeys == call[c].schemaInfo.orderedKeys
            IN IF Len(positional) > Len(orderedKeys)
               THEN call[c].invoked = 0 /\ call[c].error = "TooManyPositional"
               ELSE /\ call[c].error # "TooManyPositional"
                    /\ \A i \in 1..Len(positional) :
                          At(call[c].run.merged, orderedKeys[i]) =
                             IF call[c].run.argsAccumulator[orderedKeys[i]] # Undef
                             THEN call[c].run.argsAccumulator[orderedKeys[i]]
                             ELSE positional[i]

\* C6: with a known schema, the payload holds under every key the value of
\* the highest-ranked source that has one: argument bag, then the positional
\* value bound to the key, then the explicit args override, then the
\* schema default; and nothing under a key no source has.
C6_MergePrecedence ==
    \A c \in Calls :
        Merged(c) =>
            LET positional == NonMappings(call[c].callArgs)
                orderedKeys == call[c].schemaInfo.orderedKeys
                bag == call[c].run.argsAccumulator
                override == call[c].run.explicitArgs
                bound(key) == {i \in 1..Len(positional) : orderedKeys[i] = key}
                Expected(key) ==
                    IF bag[key] # Undef THEN bag[key]
                    ELSE IF bound(key) # {} THEN positional[CHOOSE i \in bound(key) : TRUE]
                    ELSE IF Has(override, key) THEN override[2][key]
                    ELSE DefaultOf(call[c].schemaInfo, key)
            IN \A key \in AllKeys : At(Payload(c), key) = Expected(key)

\* C7: with a known schema, every property with a default that the merge of
\* override, positional values and argument bag left without a value has
\* its default in the payload, also when that merge produced nothing at
\* all; every value that merge produced is in the payload unchanged.
C7_Defaults ==
    \A c \in Calls :
        Merged(c) =>
            LET merged == call[c].run.merged
                props == call[c].schemaInfo.schema.props
            IN /\ \A i \in 1..Len(props) :
                     (props[i].hasDefault /\ ~Has(merged, props[i].key))
                        => At(Payload(c), props[i].key) = props[i].default
               /\ \A key \in AllKeys :
                     Has(merged, key) => At(Payload(c), key) = merged[2][key]

\* callTool got a payload with a value of the caller next to an injected
\* default
C7_Witness ==
    \E c \in Calls :
        /\ Merged(c)
        /\ call[c].invoked = 1
        /\ \E key \in AllKeys :
              /\ Has(call[c].run.merged, key)
              /\ DefaultOf(call[c].schemaInfo, key) # call[c].run.merged[2][key]
        /\ \E key \in AllKeys :
              /\ ~Has(call[c].run.merged, key)
              /\ DefaultOf(call[c].schemaInfo, key) # Undef
              /\ At(Payload(c), key) = DefaultOf(call[c].schemaInfo, key)

\* callTool got the defaults alone from a call without any payload data
C7_WitnessNoData ==
    \E c \in Calls :
        /\ Merged(c)
        /\ call[c].invoked = 1
        /\ call[c].run.merged = Undef
        /\ isPlainObject(Payload(c))

\* C8: the classification.  A mapping is of the argument bag exactly when
\* the schema is known, it has a key and all its keys are in propertySet;
\* each bag holds under every key the value of the last mapping of its
\* kind that has the key; the positional list is the non-mappings in call
\* order.
InBag(c, arg) ==
    /\ isPlainObject(arg)
    /\ call[c].schemaInfo.known
    /\ ObjKeys(arg[2]) # {}
    /\ ObjKeys(arg[2]) \subseteq call[c].schemaInfo.propertySet

InOptions(c, arg) == isPlainObject(arg) /\ ~InBag(c, arg)

LastOf(callArgs, idxs, key) ==
    LET with == {i \in idxs : callArgs[i][2][key] # Undef}
    IN IF with = {} THEN Undef
       ELSE callArgs[CHOOSE i \in with : \A j \in with : j <= i][2][key]

C8_Classification ==
    \A c \in Calls :
        Resumed(c) =>
            LET callArgs == call[c].callArgs
                bagIdx == {i \in 1..Len(callArgs) : InBag(c, callArgs[i])}
                optIdx == {i \in 1..Len(callArgs) : InOptions(c, callArgs[i])}
            IN /\ call[c].run.positional = NonMappings(callArgs)
               /\ \A key \in AllKeys :
                     /\ call[c].run.argsAccumulator[key] = LastOf(callArgs, bagIdx, key)
                     /\ call[c].run.optionsAccumulator[key] = LastOf(callArgs, optIdx, key)

\* with a known schema: two bag mappings that disagree on a key, and a
\* positional value
C8_Witness ==
    \E c \in Calls :
        /\ Resumed(c)
        /\ call[c].schemaInfo.known
        /\ call[c].run.positional # <<>>
        /\ \E i, j \in 1..Len(call[c].callArgs), key \in AllKeys :
              /\ i < j
              /\ InBag(c, call[c].callArgs[i]) /\ InBag(c, call[c].callArgs[j])
              /\ call[c].callArgs[i][2][key] # Undef
              /\ call[c].callArgs[j][2][key] # Undef
              /\ call[c].callArgs[i][2][key] # call[c].callArgs[j][2][key]

\* with a known schema: a mapping with a key in propertySet and a key
\* outside it went to the options
C8_WitnessMixed ==
    \E c \in Calls :
        /\ Resumed(c)
        /\ call[c].schemaInfo.known
        /\ \E i \in 1..Len(call[c].callArgs) :
              /\ InOptions(c, call[c].callArgs[i])
              /\ ObjKeys(call[c].callArgs[i][2]) \cap call[c].schemaInfo.propertySet # {}

\* C9: without a schema and without an explicit args override, one
\* positional value is the payload itself, two or more are the payload as
\* the sequence in call order; the payload is never a mapping.
C9_Fallback ==
    \A c \in Calls :
        (Resumed(c) /\ ~call[c].schemaInfo.known /\ call[c].run.explicitArgs = Undef) =>
            LET positional == NonMappings(call[c].callArgs) IN
            /\ Len(positional) = 1 => Payload(c) = positional[1]
            /\ Len(positional) >= 2 => Payload(c) = Arr(positional)
            /\ ~isPlainObject(Payload(c))
            /\ call[c].invoked = 1

\* callTool got two positional values as a sequence, the schema unknown
\* although the fetch succeeded
C9_Witness ==
    \E c \in Calls :
        /\ Resumed(c)
        /\ ~call[c].schemaInfo.known
        /\ ~call[c].metaFailed
        /\ call[c].run.explicitArgs = Undef
        /\ Len(call[c].run.positional) = 2
        /\ call[c].run.positional[1] # call[c].run.positional[2]
        /\ call[c].invoked = 1

\* C10: the options callTool gets have an args entry exactly when there is
\* an explicit override, a positional value, an argument-bag entry or (with
\* a schema) a default to inject; every other entry is the options bag's;
\* and when the payload was built from more than the override, args is that
\* payload and not the caller's override.
C10_ArgsEntry ==
    \A c \in Calls :
        (Resumed(c) /\ call[c].invoked = 1) =>
            LET run == call[c].run
                info == call[c].schemaInfo
                computed ==
                    \/ \E i \in 1..Len(call[c].callArgs) :
                          InOptions(c, call[c].callArgs[i])
                          /\ call[c].callArgs[i][2]["args"] # Undef
                    \/ NonMappings(call[c].callArgs) # <<>>
                    \/ \E i \in 1..Len(call[c].callArgs) : InBag(c, call[c].callArgs[i])
                    \/ info.known /\ \E key \in AllKeys : DefaultOf(info, key) # Undef
            IN /\ (run.finalOptions["args"] # Undef) <=> computed
               /\ \A key \in AllKeys \ {"args"} :
                     run.finalOptions[key] = run.optionsAccumulator[key]

\* with a schema that has no default and a call with options only,
\* callTool got the options bag without an args entry
C10_Witness ==
    \E c \in Calls :
        /\ Resumed(c)
        /\ call[c].invoked = 1
        /\ call[c].schemaInfo.known
        /\ call[c].run.finalOptions["args"] = Undef
        /\ ObjKeys(call[c].run.finalOptions) # {}

\* C11: the fixed members call and listTools are resolved directly.  In
\* every step: proxy.call(toolName, options) calls callTool at once, exactly
\* once, with the tool name as given (not mapped) and the options as given
\* ({} when there are none: no args entry is added, no default, no required
\* check, no classification), it waits for no fetch, and neither its start
\* nor its end changes the cache, the marker, or the listTools calls of
\* ensureMetadata; proxy.listTools only forwards and leaves them alone too.
C11_BaseMembers ==
    [][ \A c \in Calls :
          /\ (call[c].pc = "idle" /\ call'[c].property = NameCall) =>
                /\ call'[c].pc = "callTool"
                /\ call'[c].invoked = 1
                /\ call'[c].toolName = call'[c].callArgs[1][2]
                /\ call'[c].run.finalOptions =
                      (IF Len(call'[c].callArgs) >= 2 THEN call'[c].callArgs[2][2]
                       ELSE EmptyObj)
                /\ call'[c].awaited = 0
          /\ (call[c].pc = "idle" /\ call'[c].property = NameListTools) =>
                /\ call'[c].pc = "listTools"
                /\ call'[c].invoked = 0
                /\ call'[c].awaited = 0
          /\ (call'[c].property \in BaseMembers /\ call'[c] # call[c]) =>
                /\ UNCHANGED <<toolSchemaCache, schemaFetch, fetch, listToolsCalls>>
                /\ call[c].pc # "idle" =>
                      /\ call'[c].pc \in {"returned", "threw"}
                      /\ call'[c].error \in {"none", "callTool", "listTools"}
                      /\ call'[c].invoked = call[c].invoked
                      /\ call'[c].toolName = call[c].toolName
                      /\ call'[c].run = call[c].run
      ]_vars

\* proxy.call("s_t", {a: "1"}) has returned and proxy.listTools has
\* returned: callTool got the name s_t, no fetch was made, the cache is empty
C11_Witness ==
    \E c, d \in Calls :
        /\ call[c].property = NameCall /\ call[c].pc = "returned"
        /\ call[c].toolName = NameSnake
        /\ call[c].toolName # mapPropertyToTool(NameSnake)
        /\ call[c].run.finalOptions = OnlyKey("a", Str("1"))
        /\ call[d].property = NameListTools /\ call[d].pc = "returned"
        /\ listToolsCalls = 0 /\ schemaFetch = 0
        /\ \A k \in CacheKeys : ~toolSchemaCache[k].known

\* the infos createToolSchemaInfo derived, as the cache holds them
CachedInfos == {toolSchemaCache[k] : k \in {n \in CacheKeys : toolSchemaCache[n].known}}

\* the place of the first entry of seq equal to key
FirstAt(seq, key) == CHOOSE i \in 1..Len(seq) : seq[i] = key /\ \A j \in 1..(i - 1) : seq[j] # key

\* orderedKeys holds exactly the names of the set names, each once; those
\* of required come first, in the order required first declares them; the
\* others follow, in the order the schema declares its properties
OrderedAs(info, names, required) ==
    LET orderedKeys == info.orderedKeys
        declared == PropertyKeys(info.schema)
    IN /\ SeqToSet(orderedKeys) = names
       /\ \A i, j \in 1..Len(orderedKeys) : i # j => orderedKeys[i] # orderedKeys[j]
       /\ \A i, j \in 1..Len(orderedKeys) :
             i < j =>
               \/ /\ orderedKeys[i] \in SeqToSet(required)
                  /\ orderedKeys[j] \in SeqToSet(required)
                  /\ FirstAt(required, orderedKeys[i]) < FirstAt(required, orderedKeys[j])
               \/ /\ orderedKeys[i] \in SeqToSet(required)
                  /\ orderedKeys[j] \notin SeqToSet(required)
               \/ /\ orderedKeys[i] \notin SeqToSet(required)
                  /\ orderedKeys[j] \notin SeqToSet(required)
                  /\ FirstAt(declared, orderedKeys[i]) < FirstAt(declared, orderedKeys[j])

\* C12 as stated: for every derived info, orderedKeys holds each member of
\* propertySet exactly once and nothing else, the required keys first in
\* their declared order, then the remaining declared properties in
\* declaration order; and requiredKeys is a subset of propertySet.
C12_OrderedKeysAllOfPropertySet ==
    \A info \in CachedInfos :
        /\ OrderedAs(info, info.propertySet, info.requiredKeys)
        /\ SeqToSet(info.requiredKeys) \subseteq info.propertySet

\* C12, amended: for every derived info, orderedKeys holds each string of
\* propertySet exactly once and nothing else (an entry of required that is
\* no string is in propertySet and in requiredKeys, not in orderedKeys),
\* the required strings first in the order required first declares them,
\* then the remaining declared properties in declaration order; and
\* requiredKeys is a subset of propertySet.
C12_OrderedKeys ==
    \A info \in CachedInfos :
        /\ OrderedAs(info, {key \in info.propertySet : IsString(key)},
                     StringKeys(info.requiredKeys))
        /\ SeqToSet(info.requiredKeys) \subseteq info.propertySet

\* properties t, a with required ["a", 1]: orderedKeys is a, t
C12_Witness ==
    \E info \in CachedInfos :
        /\ info.requiredKeys = <<"a", NumberOne>>
        /\ PropertyKeys(info.schema) = <<"t", "a">>
        /\ info.orderedKeys = <<"a", "t">>
        /\ info.propertySet = {"a", "t", NumberOne}

\* required ["b", "b"] with the one property a
C12_WitnessRepeated ==
    \E info \in CachedInfos :
        /\ info.requiredKeys = <<"b", "b">>
        /\ info.orderedKeys = <<"b", "a">>

SomeFetchSucceeded == \E n \in Fetches : fetch[n] = "fulfilled"

ListedTools == {remoteTools[i] : i \in 1..Len(remoteTools)}

\* C13: after a successful fetch every listed tool with a usable schema is
\* cached, with the info of its own schema, under its raw name and under
\* the mapped form of its raw name, and a dynamic call whose mapped name is
\* one of the two got that info; a listed tool without a usable schema has
\* no entry, and a call to it called callTool without a validation error.
C13_CachedUnderBothNames ==
    SomeFetchSucceeded =>
        \A tool \in ListedTools :
            LET info == createToolSchemaInfo(tool.inputSchema)
                keys == {tool.name, mapPropertyToTool(tool.name)}
            IN /\ \A k \in keys : toolSchemaCache[k] = info
               /\ \A c \in Calls :
                     (Resumed(c) /\ ~call[c].metaFailed /\ call[c].toolName \in keys)
                        => /\ call[c].schemaInfo = info
                           /\ ~info.known =>
                                 (call[c].invoked = 1
                                    /\ call[c].error \in {"none", "callTool"})

\* C14: once a fetch has succeeded the cache is read-only and nothing is
\* fetched again.  In every step from a state where some fetch has
\* succeeded the cache and the number of listTools calls stay as they are;
\* a call that starts for an identifier the cache holds gets the entry at
\* once and waits for no fetch; two calls that got an entry for the same
\* identifier got the same one; and at all times ensureMetadata has made at
\* most one listTools call more than have failed.
C14_CacheReadOnly ==
    [][ /\ SomeFetchSucceeded =>
              /\ toolSchemaCache' = toolSchemaCache
              /\ listToolsCalls' = listToolsCalls
        /\ \A c \in Calls :
              (/\ call[c].pc = "idle" /\ call'[c].pc # "idle"
               /\ toolSchemaCache[call'[c].toolName].known)
                 => /\ call'[c].pc = "cached"
                    /\ call'[c].schemaInfo = toolSchemaCache[call'[c].toolName]
                    /\ call'[c].awaited = 0
                    /\ listToolsCalls' = listToolsCalls
        /\ \A c, d \in Calls :
              (/\ call'[c].toolName = call'[d].toolName
               /\ call'[c].schemaInfo.known /\ call'[d].schemaInfo.known)
                 => call'[c].schemaInfo = call'[d].schemaInfo
        /\ listToolsCalls' <= failedFetches' + 1
      ]_vars

\* after the one fetch a second call for the same tool was served from the
\* cache and has returned
C14_Witness ==
    \E c, d \in Calls :
        /\ fetch[1] = "fulfilled" /\ listToolsCalls = 1
        /\ call[c].awaited = 1 /\ Resumed(c) /\ call[c].schemaInfo.known
        /\ call[d].awaited = 0 /\ call[d].pc = "returned"
        /\ call[d].toolName = call[c].toolName
        /\ call[d].schemaInfo = call[c].schemaInfo

\* the rule in words: every underscore becomes a hyphen, a hyphen is put
\* after every character of the set before that an upper-case letter
\* follows, and every letter becomes lower-case
RECURSIVE RuleFrom(_, _, _)
RuleFrom(name, before, i) ==
    IF i > Len(name) THEN <<>>
    ELSE <<toLowerCase(IF name[i] = "_" THEN "-" ELSE name[i])>>
            \o (IF i < Len(name) /\ name[i] \in before /\ name[i + 1] \in Upper
                THEN <<"-">> ELSE <<>>)
            \o RuleFrom(name, before, i + 1)

ResolveLibraryId ==
    <<"r", "e", "s", "o", "l", "v", "e", "-", "l", "i", "b", "r", "a", "r", "y", "-", "i", "d">>
FirecrawlScrape ==
    <<"f", "i", "r", "e", "c", "r", "a", "w", "l", "-", "s", "c", "r", "a", "p", "e">>

\* the tool name of every dynamic call is the rule applied to the property,
\* with or without a schema; both examples map as the tests say; the rule
\* leaves a tool name as it is
MapperFollows(before) ==
    \A c \in Calls :
        (call[c].pc # "idle" /\ call[c].property \notin BaseMembers) =>
            /\ call[c].toolName = RuleFrom(call[c].property, before, 1)
            /\ call[c].property = NameResolveLibraryId => call[c].toolName = ResolveLibraryId
            /\ call[c].property = NameFirecrawlScrape => call[c].toolName = FirecrawlScrape
            /\ mapPropertyToTool(call[c].toolName) = call[c].toolName

\* C15 as stated: the hyphen goes in at each boundary from a lower-case
\* letter to an upper-case letter.
C15_MapperLowerToUpper == MapperFollows(SeqToSet(LowerLetters))

\* C15, amended: the tool name passed to callTool is the mapper applied to
\* the property, whether or not a schema was found; the default mapper
\* replaces each underscore with a hyphen, inserts a hyphen between a
\* lower-case letter or a digit and an upper-case letter that follows it,
\* and lower-cases the result; resolveLibraryId maps to resolve-library-id
\* and firecrawl_scrape to firecrawl-scrape; applying it to its own output
\* changes nothing.
C15_Mapper == MapperFollows(SeqToSet(LowerLetters) \cup Digits)

\* callTool was called for the property 1T_ with the tool name 1-t-, and
\* no schema was found for it
C15_Witness ==
    \E c \in Calls :
        /\ call[c].property = <<"1", "T", "_">>
        /\ call[c].toolName = <<"1", "-", "t", "-">>
        /\ call[c].invoked = 1
        /\ ~call[c].schemaInfo.known

\* callTool was called for resolveLibraryId
C15_WitnessExample ==
    \E c \in Calls :
        /\ call[c].property = NameResolveLibraryId
        /\ call[c].toolName = ResolveLibraryId
        /\ call[c].invoked = 1

\* C16: for every dynamic call that called callTool, the options mapping
\* handed over is an object the handler made, and so is the args mapping
\* when args is a mapping: neither is an object the caller passed in, the
\* mapping under the explicit args key included.
C16_NoAliasing ==
    \A c \in Calls :
        (call[c].invoked = 1 /\ call[c].property \notin BaseMembers) =>
            /\ call[c].run.optionsOwner = "proxy"
            /\ isPlainObject(call[c].run.finalOptions["args"])
                  => call[c].run.argsOwner = "proxy"

Ended(c) == call[c].pc \in {"returned", "threw"}

ValidationErrors == {"TooManyPositional", "MissingRequired"}

\* C17: every dynamic call that was made ends; a call that has ended has
\* either thrown a validation error without calling callTool or called
\* callTool once; callTool is called only by a call that waits on no fetch
\* or whose fetch has settled (its promise fulfilled or rejected), at the
\* moment it resumes, and a call that has called it does not call again.
C17_CallEnds ==
    /\ \A c \in Calls : (call[c].pc # "idle") ~> Ended(c)
    /\ [](\A c \in Calls :
            Ended(c) =>
               \/ call[c].error \in ValidationErrors /\ call[c].invoked = 0
               \/ call[c].error \in {"none", "callTool"} /\ call[c].invoked = 1)
    /\ [][ \A c \in Calls :
             /\ (call[c].invoked = 0 /\ call'[c].invoked = 1) =>
                   /\ call[c].pc \in {"cached", "ensure"}
                   /\ call'[c].pc = "callTool"
                   /\ call[c].pc = "ensure" => Settled(call[c].awaited)
             /\ call[c].invoked = 1 =>
                   (call'[c].invoked = 1 /\ call'[c].pc # "callTool" => Ended(c)')
             /\ Ended(c) => call'[c] = call[c]
          ]_vars

\* one call threw a validation error, the other called callTool after the
\* fetch it waited on had failed, and has returned
C17_Witness ==
    \E c, d \in Calls :
        /\ call[c].pc = "threw" /\ call[c].error \in ValidationErrors
        /\ call[c].invoked = 0
        /\ call[d].pc = "returned" /\ call[d].invoked = 1
        /\ call[d].metaFailed /\ fetch[call[d].awaited] = "failed"

\* C18: after a successful fetch the entry under the raw name of every
\* listed tool with a usable schema is the info of that tool's own schema,
\* also when the mapped name of one listed tool is the raw name of another,
\* in either listing order.
C18_RawNameKeepsOwnInfo ==
    SomeFetchSucceeded =>
        \A tool \in ListedTools :
            LET info == createToolSchemaInfo(tool.inputSchema) IN
            info.known => toolSchemaCache[tool.name] = info

\* C19: a validation error stays with the call it was raised for.  In
\* every step in which a call gets a validation error, that call throws
\* without having called callTool, no other call changes, and the cache,
\* the marker and the fetches stay as they are; a call whose callTool is
\* pending ends with the payload and options it called it with, whatever
\* happened to the others; and what a resumed call worked on is its own:
\* its positional values are its own arguments, and an error it threw is
\* one its own arguments give.
C19_ErrorsStayLocal ==
    [][ \A c \in Calls :
          /\ (call[c].error \notin ValidationErrors
                 /\ call'[c].error \in ValidationErrors) =>
                /\ call'[c].pc = "threw" /\ call'[c].invoked = 0
                /\ \A d \in Calls \ {c} : call'[d] = call[d]
                /\ UNCHANGED <<toolSchemaCache, schemaFetch, fetch,
                               listToolsCalls, failedFetches>>
          /\ (call[c].pc = "callTool" /\ call'[c] # call[c]) =>
                /\ call'[c].pc \in {"returned", "threw"}
                /\ call'[c].error \in {"none", "callTool"}
                /\ call'[c].run = call[c].run
                /\ call'[c].invoked = 1
          /\ (~Resumed(c) /\ call'[c].pc \in {"callTool", "threw"}) =>
                /\ call'[c].callArgs = call[c].callArgs
                /\ call'[c].run.positional = NonMappings(call[c].callArgs)
                /\ call'[c].error = "TooManyPositional" =>
                      Len(NonMappings(call[c].callArgs))
                         > Len(call'[c].schemaInfo.orderedKeys)
                /\ call'[c].error = "MissingRequired" =>
                      \E key \in SeqToSet(call'[c].schemaInfo.requiredKeys) :
                         ~Has(call'[c].run.finalOptions["args"], ToPropertyKey(key))
                /\ call'[c].error = "none" => call'[c].pc = "callTool"
      ]_vars

\* two calls waited on the same fetch: one threw a validation error, the
\* other called callTool and has returned
C19_Witness ==
    \E c, d \in Calls :
        /\ c # d
        /\ call[c].awaited = 1 /\ call[d].awaited = 1
        /\ call[c].pc = "threw" /\ call[c].error \in ValidationErrors
        /\ call[d].pc = "returned" /\ call[d].invoked = 1
        /\ fetch[1] = "fulfilled" /\ schemaFetch = 1

\* the config a next operation would load, and the one the last operation loaded
StoredConfig == loadCraftConfig
ConfigBefore ==
    IF craftLast.before.exists THEN Parse(craftLast.before.content)
    ELSE [connections |-> <<>>, defaultConnection |-> Undef]

StoredNames ==
    [i \in 1..Len(StoredConfig.connections) |-> StoredConfig.connections[i]["name"]]

\* the connections of the loaded config other than the removed one, in order
Remaining ==
    SelectSeq(ConfigBefore.connections,
              LAMBDA connection : connection["name"] # Str(craftLast.name))

\* C20: after any sequence of addConnection, removeConnection and
\* useConnection, each run to its end before the next, the stored
\* defaultConnection is unset or the name of a stored connection, the stored
\* names are pairwise distinct, a connection added to an empty list is the
\* default, a removal of the default makes the first remaining connection the
\* default (none when nothing remains), and an operation that threw left the
\* stored config as it was.
C20_ConnectionStore ==
    /\ \/ StoredConfig.defaultConnection = Undef
       \/ \E i \in DOMAIN StoredNames :
             StoredNames[i] = StoredConfig.defaultConnection
    /\ \A i, j \in DOMAIN StoredNames :
          StoredNames[i] = StoredNames[j] => i = j
    /\ (craftLast.op = "add" /\ ~craftLast.threw
          /\ Len(ConfigBefore.connections) = 0) =>
          StoredConfig.defaultConnection = Str(craftLast.name)
    /\ (craftLast.op = "remove" /\ ~craftLast.threw
          /\ ConfigBefore.defaultConnection = Str(craftLast.name)) =>
          StoredConfig.defaultConnection =
              IF Len(Remaining) = 0 THEN Undef ELSE Remaining[1]["name"]
    /\ craftLast.threw => craftFile = craftLast.before

\* the last operation removed the default connection, which was the second
\* of three, and the first of the two that remain is the default now
C20_Witness ==
    /\ craftLast.op = "remove" /\ ~craftLast.threw
    /\ Len(ConfigBefore.connections) = 3
    /\ ConfigBefore.connections[2]["name"] = Str(craftLast.name)
    /\ ConfigBefore.defaultConnection = Str(craftLast.name)
    /\ Len(StoredConfig.connections) = 2
    /\ StoredConfig.defaultConnection = ConfigBefore.connections[1]["name"]

\* an addConnection with a URL that is not a Craft URL threw although one
\* connection is stored
C20_WitnessFailed ==
    /\ craftLast.op = "add" /\ craftLast.threw
    /\ Len(StoredConfig.connections) = 1
    /\ FindIndex(StoredConfig.connections, craftLast.name) = 0

====
